---- MODULE Spec2Model ----
(***************************************************************************)
(* State-machine model of app.py, the photo bulletin: the item store with *)
(* its two backends (local payload files plus the data.json index, or the *)
(* remote asset service) and the three request handlers index, upload and *)
(* delete that use it.                                                     *)
(*                                                                         *)
(* Text is modelled as a sequence of atoms: the atom " " is one whitespace *)
(* character, every other atom is a block of non-whitespace characters.    *)
(* created_at strings are sequences of digits compared lexicographically.  *)
(* User-facing messages are rendered by an English key.                    *)
(***************************************************************************)
EXTENDS Naturals, Sequences, FiniteSets, TLC

\* ------------------------------------------------------------------ bounds
\* Requests received over the process lifetime.
MaxReqs == 3
\* Seconds the wall clock can advance to.
MaxClock == 1

\* ------------------------------------------------------- program constants
ALLOWED_EXTS == {".jpg", ".jpeg", ".png", ".gif", ".webp"}
CLOUD_FOLDER == "limgp_moments"
TAG == "limgp_moments"
\* max_results of both remote listing calls
MAX_RESULTS == 100

\* Gunicorn-style workers that handle requests concurrently.
Workers == {1, 2}

VARIABLES
  USE_CLOUDINARY,  \* backend switch, read once at import
  UPLOAD_TOKEN,    \* the environment's UPLOAD_TOKEN ("" when unset)
  DATA_FILE,       \* data.json: [kind, items]
  UPLOAD_DIR,      \* names of the payload files under uploads/
  cloud,           \* the remote account: a set of assets
  clock,           \* wall clock, in seconds
  uuid,            \* uuid4() values handed out so far
  nreq,            \* requests received so far
  req,             \* per worker: the request it is handling
  last,            \* the response being sent, with what its request observed
  acked,           \* records whose create was answered with success
  gone             \* of those, the ones whose delete was answered with success

vars == <<USE_CLOUDINARY, UPLOAD_TOKEN, DATA_FILE, UPLOAD_DIR, cloud, clock,
          uuid, nreq, req, last, acked, gone>>

\* ------------------------------------------------------------------- text
\* str.strip(): leading and trailing whitespace removed.
RECURSIVE lstrip(_)
lstrip(s) ==
  IF s # <<>> /\ Head(s) = " " THEN lstrip(Tail(s)) ELSE s

RECURSIVE rstrip(_)
rstrip(s) ==
  IF s # <<>> /\ s[Len(s)] = " " THEN rstrip(SubSeq(s, 1, Len(s) - 1)) ELSE s

strip(s) == rstrip(lstrip(s))

\* str.lower() on the extensions the model uploads.
lower(ext) ==
  CASE ext = ".PNG" -> ".png"
    [] ext = ".JPG" -> ".jpg"
    [] OTHER -> ext

\* Python's < on strings: lexicographic, a proper prefix is smaller.
RECURSIVE StrLess(_, _)
StrLess(a, b) ==
  IF b = <<>> THEN FALSE
  ELSE IF a = <<>> THEN TRUE
  ELSE IF Head(a) < Head(b) THEN TRUE
  ELSE IF Head(a) > Head(b) THEN FALSE
  ELSE StrLess(Tail(a), Tail(b))

\* datetime.now().isoformat(timespec="seconds"): fixed width.
isoformat(t) == <<t \div 10, t % 10>>

\* uuid4().hex: the value drawn for the payload name of the n-th stored
\* upload, and the one drawn for its record id.
hex(n) == "h" \o ToString(n)
hex_id(n) == "i" \o ToString(n)

Take(s, n) == IF Len(s) <= n THEN s ELSE SubSeq(s, 1, n)

\* ------------------------------------------------------------------- sort
\* The sort key of line 91: created_at, "" when missing.
SortKey(x) == x.created_at

\* A sort that lost reverse=True: ascending.
RECURSIVE InsertAsc(_, _)
InsertAsc(sorted, x) ==
  IF sorted = <<>> THEN <<x>>
  ELSE IF StrLess(SortKey(x), SortKey(Head(sorted))) THEN <<x>> \o sorted
  ELSE <<Head(sorted)>> \o InsertAsc(Tail(sorted), x)

\* list.sort(key=..., reverse=True) is stable: an element goes behind every
\* element whose key is not smaller.
RECURSIVE InsertDesc(_, _)
InsertDesc(sorted, x) ==
  IF sorted = <<>> THEN <<x>>
  ELSE IF StrLess(SortKey(Head(sorted)), SortKey(x)) THEN <<x>> \o sorted
  ELSE <<Head(sorted)>> \o InsertDesc(Tail(sorted), x)

RECURSIVE SortFrom(_, _)
SortFrom(sorted, rest) ==
  IF rest = <<>> THEN sorted
  ELSE SortFrom(InsertDesc(sorted, Head(rest)), Tail(rest))

\* A client that leaves the items in the order received.
NoSort(items) == items

\* items.sort(key=lambda x: x.get("created_at") or "", reverse=True), line 91
sort_reverse(items) == SortFrom(<<>>, items)

\* ----------------------------------------------------------- remote service
Outcomes == {"ok", "raise"}

IsTagged(r) == TAG \in r.tags
InFolder(r) == r.folder

\* One enumeration of the assets, and the orders in which the service may
\* return them: that one or its reverse.
RECURSIVE SomeOrder(_)
SomeOrder(cl) ==
  IF cl = {} THEN <<>>
  ELSE LET r == CHOOSE x \in cl : TRUE IN <<r>> \o SomeOrder(cl \ {r})

Reverse(s) == [i \in 1..Len(s) |-> s[Len(s) + 1 - i]]

Orders(cl) == {SomeOrder(cl), Reverse(SomeOrder(cl))}

\* cloudinary.Search().expression("tags:TAG").sort_by("created_at","desc")
\* .max_results(100): the tagged assets, newest first, capped.
Search(order) == Take(SortFrom(<<>>, SelectSeq(order, IsTagged)), MAX_RESULTS)

\* cloudinary.api.resources(prefix=CLOUD_FOLDER/, max_results=100): the
\* assets under the folder, in the service's order, capped.
ApiResources(order) == Take(SelectSeq(order, InFolder), MAX_RESULTS)

\* cloudinary.utils.cloudinary_url(public_id, secure=True, fetch_format="auto")
cloudinary_url(public_id) == "https://res/f_auto/" \o public_id

\* Lines 67-90: one remote resource mapped to an item.
ToItem(r) ==
  [id |-> IF r.asset_id # "" THEN r.asset_id ELSE r.public_id,
   source |-> "cloud",
   public_id |-> r.public_id,
   image_url |-> IF r.public_id # "" THEN cloudinary_url(r.public_id) ELSE r.url,
   caption |-> r.context,
   created_at |-> r.created_at]

MapItems(resources) == [i \in 1..Len(resources) |-> ToItem(resources[i])]

\* A remote branch that gives up when the tag search raises: the fallback
\* runs on an empty search result only.
LoadCloudNoRetry(env) ==
  LET found == IF env.search = "ok" THEN Search(env.order) ELSE <<>>
      fallback == env.search = "ok" /\ found = <<>>
      resources ==
        IF ~fallback THEN found
        ELSE IF env.listing = "ok"
             THEN SelectSeq(ApiResources(env.order), IsTagged)
             ELSE <<>>
  IN [kind |-> "list",
      items |-> sort_reverse(MapItems(resources)),
      calls |-> IF fallback THEN <<"search", "resources">> ELSE <<"search">>]

\* A remote branch whose prefix listing is not guarded by try/except.
LoadCloudUnguarded(env) ==
  LET found == IF env.search = "ok" THEN Search(env.order) ELSE <<>>
      fallback == found = <<>>
      resources ==
        IF ~fallback THEN found
        ELSE IF env.listing = "ok"
             THEN SelectSeq(ApiResources(env.order), IsTagged)
             ELSE <<>>
  IN [kind |-> IF fallback /\ env.listing = "raise" THEN "raise" ELSE "list",
      items |-> sort_reverse(MapItems(resources)),
      calls |-> IF fallback THEN <<"search", "resources">> ELSE <<"search">>]

\* A remote branch whose prefix listing is returned without the client-side
\* tag filter.
LoadCloudUnfiltered(env) ==
  LET found == IF env.search = "ok" THEN Search(env.order) ELSE <<>>
      fallback == found = <<>>
      resources ==
        IF ~fallback THEN found
        ELSE IF env.listing = "ok" THEN ApiResources(env.order)
             ELSE <<>>
  IN [kind |-> "list",
      items |-> sort_reverse(MapItems(resources)),
      calls |-> IF fallback THEN <<"search", "resources">> ELSE <<"search">>]

\* Lines 36-92: the remote branch of _load_items under the outcomes env of
\* its remote calls; calls is the sequence of remote calls it made.
LoadCloud(env) ==
  LET found == IF env.search = "ok" THEN Search(env.order) ELSE <<>>
      fallback == found = <<>>
      resources ==
        IF ~fallback THEN found
        ELSE IF env.listing = "ok"
             THEN SelectSeq(ApiResources(env.order), IsTagged)
             ELSE <<>>
  IN [kind |-> "list",
      items |-> sort_reverse(MapItems(resources)),
      calls |-> IF fallback THEN <<"search", "resources">> ELSE <<"search">>]

\* Lines 93-98: the local branch. The file's content is one of
\*   absent    no data.json
\*   array     a JSON array (items holds it)
\*   badjson   text that json.loads rejects (JSONDecodeError)
\*   nonarray  valid JSON that is no array, e.g. {"a": 1}
\*   badutf8   bytes that are not UTF-8 (read_text raises UnicodeDecodeError)
LoadLocal(df) ==
  CASE df.kind = "absent" -> [kind |-> "list", items |-> <<>>, calls |-> <<>>]
    [] df.kind = "array" -> [kind |-> "list", items |-> df.items, calls |-> <<>>]
    [] df.kind = "badjson" -> [kind |-> "list", items |-> <<>>, calls |-> <<>>]
    [] df.kind = "nonarray" -> [kind |-> "other", items |-> <<>>, calls |-> <<>>]
    [] df.kind = "badutf8" -> [kind |-> "raise", items |-> <<>>, calls |-> <<>>]

\* _load_items(): kind is "list" (a list was returned), "other" (another
\* JSON value was returned) or "raise" (an exception left the function).
_load_items(df, env) ==
  IF USE_CLOUDINARY THEN LoadCloud(env) ELSE LoadLocal(df)

\* A save that returns before writing, as the remote branch does.
SaveNothing(df, items) == df

\* A save that appends the copy's last record to the file as it is now,
\* instead of replacing the file by the copy.
SaveAppending(df, items) ==
  IF USE_CLOUDINARY THEN df
  ELSE IF items = <<>> THEN [kind |-> "array", items |-> <<>>]
  ELSE [kind |-> "array",
        items |-> (IF df.kind = "array" THEN df.items ELSE <<>>)
                  \o <<items[Len(items)]>>]

\* _save_items(items), lines 101-104: the new content of data.json.
_save_items(df, items) ==
  IF USE_CLOUDINARY THEN df ELSE [kind |-> "array", items |-> items]

\* ------------------------------------------------------------ request data
None == [present |-> FALSE, stem |-> "", suffix |-> ""]
Named(stem, suffix) == [present |-> TRUE, stem |-> stem, suffix |-> suffix]

\* What clients send. A form with a wrong token or a bad file is otherwise
\* well formed.
Tokens == {<<"s">>, <<"s", " ">>, <<"x">>}
Captions == {<<" ", "sunset", " ">>, <<>>}
Photo == Named("photo", ".PNG")
Files == {None, Named("", ""), Photo, Named("tool", ".exe")}
UploadForms ==
  {[caption |-> c, token |-> <<"s">>, image |-> Photo] : c \in Captions}
  \cup {[caption |-> <<" ", "sunset", " ">>, token |-> t, image |-> Photo] :
          t \in Tokens}
  \cup {[caption |-> <<" ", "sunset", " ">>, token |-> <<"s">>, image |-> f] :
          f \in Files}

\* A filter that finds no image name in any entry.
NoImage(i) == <<>>

\* i.get("image"), line 204: <<>> stands for None.
ImageOf(i) == IF "image" \in DOMAIN i THEN <<i.image>> ELSE <<>>
IndexedNames(df) ==
  IF df.kind = "array" THEN {df.items[k].image : k \in 1..Len(df.items)} ELSE {}
LocalForm(t, f) ==
  [token |-> t, source |-> <<"local">>, public_id |-> <<>>, filename |-> f]
CloudForm(t, i) ==
  [token |-> t, source |-> <<"cloud">>, public_id |-> i, filename |-> <<>>]
\* UPLOAD_DIR / filename, line 196: the file that a file name of a delete
\* form resolves to. A name is a sequence of path atoms: "./" stays in the
\* directory, "../" followed by "data.json" leaves uploads/ for the index
\* file next to it.
file_path(filename) ==
  IF filename = <<"../", "data.json">>
  THEN [dir |-> "data", name |-> "data.json"]
  ELSE [dir |-> "uploads", name |-> filename[Len(filename)]]

\* Delete forms name payload files plainly or through a path, on the local
\* backend.
DeleteForms ==
  {LocalForm(t, <<n>>) :
     t \in Tokens,
     n \in UPLOAD_DIR \cup IndexedNames(DATA_FILE) \cup {"ghost.png"}}
  \cup {LocalForm(<<"s">>, <<>>), CloudForm(<<"s">>, <<>>)}
  \cup (IF USE_CLOUDINARY THEN {}
        ELSE {LocalForm(<<"s">>, <<"./", n>>) : n \in UPLOAD_DIR}
             \cup {LocalForm(<<"s">>, <<"../", "data.json">>)})
  \cup {CloudForm(t, <<a.public_id>>) : t \in Tokens, a \in cloud}
  \cup {CloudForm(<<"s">>, <<CLOUD_FOLDER \o "/gone">>)}

\* Responses. redirect(url_for("index", msg=..., level=...)), the page of
\* index(), and the 500 Flask answers when an exception leaves a handler.
Redirect(msg, level) == [status |-> 302, msg |-> msg, level |-> level]
Page(loaded) ==
  [status |-> 200, msg |-> "", level |-> "", kind |-> loaded.kind,
   items |-> loaded.items]
ServerError == [status |-> 500, msg |-> "exception", level |-> ""]

\* A handler that forgets the token check.
TokenUnchecked(form) == TRUE

\* Lines 124-127 and 175-178: TRUE when the token check lets the request on.
token_ok(form) ==
  LET token == strip(form.token)
      required == strip(UPLOAD_TOKEN)
  IN ~(required # <<>> /\ token # required)

\* A validation without the extension allow-list.
AnyExtension(form) ==
  LET file == form.image
  IN IF ~file.present \/ file.stem \o file.suffix = "" THEN "choose_an_image"
     ELSE ""

\* Lines 128-135: the validation error of an upload form, "" when it passes.
\* secure_filename() leaves the names the model uploads as they are.
upload_invalid(form) ==
  LET file == form.image
      filename == file.stem \o file.suffix
      ext == lower(file.suffix)
  IN IF ~file.present \/ filename = "" THEN "choose_an_image"
     ELSE IF ext \notin ALLOWED_EXTS THEN "only_images"
     ELSE ""

\* --------------------------------------------------------------- observers
\* What list() returns on the stores df, cl when its remote calls end as o
\* (both of them).
Observe(df, cl, o) ==
  LET r == _load_items(df, [search |-> o, listing |-> o, order |-> SomeOrder(cl)])
  IN [remote |-> o, kind |-> r.kind, items |-> r.items]

ObsOutcomes == IF USE_CLOUDINARY THEN Outcomes ELSE {"ok"}

LocalEnv == [search |-> "ok", listing |-> "ok", order |-> <<>>]
Envs ==
  IF USE_CLOUDINARY
  THEN [search : Outcomes, listing : Outcomes, order : Orders(cloud)]
  ELSE {LocalEnv}

Idle == [pc |-> "idle"]
Nothing == [op |-> "none"]
Busy(q) == req[q].pc # "idle"
Quiet(p) == \A q \in Workers \ {p} : ~Busy(q)

\* Worker p goes on with its request once the pending response is out.
At(p, pc) ==
  /\ last.op = "none"
  /\ req[p].pc = pc

\* A request goes to the first free worker.
Free(p) ==
  /\ At(p, "idle")
  /\ \A q \in Workers : q < p => Busy(q)
  /\ nreq < MaxReqs

\* The file name that the response sum reports as deleted, if it does.
Deleted(sum) ==
  IF /\ sum.op = "delete"
     /\ sum.res.level = "success"
     /\ "filename" \in DOMAIN sum
     /\ Len(sum.filename) = 1
  THEN {sum.filename[1]}
  ELSE {}

\* One step of worker p. started: the step receives a new request. out: the
\* stores after the step, p's request after it, and the response it sends
\* (Nothing when the request goes on).
Apply(p, started, out) ==
  /\ DATA_FILE' = out.df
  /\ UPLOAD_DIR' = out.dir
  /\ cloud' = out.cl
  /\ clock' = out.clk
  /\ uuid' = out.uu
  /\ nreq' = IF started THEN nreq + 1 ELSE nreq
  /\ req' = [q \in Workers |->
               IF q = p THEN out.rq
               ELSE IF started /\ Busy(q) THEN [req[q] EXCEPT !.clean = FALSE]
               ELSE req[q]]
  /\ last' = out.sum
  /\ acked' = acked \cup out.ack
  /\ gone' = gone \cup (Deleted(out.sum) \cap acked)
  /\ UNCHANGED <<USE_CLOUDINARY, UPLOAD_TOKEN>>

Out(df, dir, cl, clk, uu, rq, sum, ack) ==
  [df |-> df, dir |-> dir, cl |-> cl, clk |-> clk, uu |-> uu, rq |-> rq,
   sum |-> sum, ack |-> ack]

\* A response that leaves every store as it is.
Answer(sum) == Out(DATA_FILE, UPLOAD_DIR, cloud, clock, uuid, Idle, sum, {})

Summary(r) == [k \in DOMAIN r \ {"pc"} |-> r[k]]

\* Of a form that passed the checks, what the rest of the handler uses.
Kept(form) ==
  [k \in DOMAIN form \ {"token", "image"} |-> form[k]]

RemoteCalls(loaded) == {"cloud." \o loaded.calls[k] : k \in 1..Len(loaded.calls)}

\* ------------------------------------------------------------------ index
\* Lines 107-113: GET /.
index(p) ==
  /\ Free(p)
  /\ \E env \in Envs :
       LET loaded == _load_items(DATA_FILE, env)
       IN Apply(p, TRUE, Answer(
            [op |-> "index",
             res |-> IF loaded.kind = "raise" THEN ServerError ELSE Page(loaded),
             fx |-> IF USE_CLOUDINARY THEN RemoteCalls(loaded) ELSE {"index.read"},
             calls |-> loaded.calls,
             env |-> [search |-> env.search, listing |-> env.listing],
             hits |-> Cardinality({a \in cloud : IsTagged(a)}),
             seen |-> DATA_FILE.kind,
             clean |-> Quiet(p)]))

\* An upload that goes on to the index although file.save did not store
\* the payload.
upload_ignoring_save(p) ==
  /\ Free(p)
  /\ ~USE_CLOUDINARY
  /\ \E form \in UploadForms :
       /\ token_ok(form)
       /\ upload_invalid(form) = ""
       /\ Apply(p, TRUE,
            Out(DATA_FILE, UPLOAD_DIR, cloud, clock, uuid + 1,
                [op |-> "upload", form |-> form, clean |-> Quiet(p),
                 pc |-> "upload_load", caption |-> strip(form.caption),
                 unique_name |-> hex(uuid + 1) \o lower(form.image.suffix),
                 n |-> uuid + 1, fx |-> {"file.save"},
                 pre |-> Observe(DATA_FILE, cloud, "ok")],
                Nothing, {}))

\* ----------------------------------------------------------------- upload
\* Lines 121-151: POST /upload up to the payload write (local) or through
\* the remote upload (remote). io: how file.save or uploader.upload ends.
upload(p) ==
  /\ Free(p)
  /\ \E form \in UploadForms :
       LET caption == strip(form.caption)
           invalid == upload_invalid(form)
           base == [op |-> "upload", form |-> form, clean |-> Quiet(p)]
           unique_name == hex(uuid + 1) \o lower(form.image.suffix)
       IN IF ~token_ok(form)
          THEN Apply(p, TRUE, Answer(
                 base @@ [res |-> Redirect("wrong_token", "error"), fx |-> {}]))
          ELSE IF invalid # ""
          THEN Apply(p, TRUE, Answer(
                 base @@ [res |-> Redirect(invalid, "error"), fx |-> {}]))
          ELSE IF USE_CLOUDINARY
          THEN \E io \in Outcomes, t \in clock..MaxClock,
                  o1 \in ObsOutcomes, o2 \in ObsOutcomes :
                 LET asset == [public_id |-> CLOUD_FOLDER \o "/" \o hex(uuid + 1),
                               asset_id |-> "a" \o hex(uuid + 1), url |-> "",
                               tags |-> {TAG}, folder |-> TRUE,
                               context |-> caption, created_at |-> isoformat(t)]
                 IN Apply(p, TRUE,
                      IF io = "raise"
                      THEN Answer(base @@ [res |-> Redirect("upload_failed", "error"),
                                           fx |-> {"cloud.upload"}])
                      ELSE Out(DATA_FILE, UPLOAD_DIR, cloud \cup {asset}, t,
                               uuid + 1, Idle,
                               base @@ [res |-> Redirect("uploaded", "success"),
                                        fx |-> {"cloud.upload"},
                                        caption |-> caption,
                                        pre |-> Observe(DATA_FILE, cloud, o1),
                                        post |-> Observe(DATA_FILE,
                                                         cloud \cup {asset}, o2)],
                               {asset.public_id}))
          ELSE \E io \in Outcomes :
                 Apply(p, TRUE,
                   IF io = "raise"
                   THEN Answer(base @@ [res |-> ServerError, fx |-> {"file.save"}])
                   ELSE Out(DATA_FILE, UPLOAD_DIR \cup {unique_name}, cloud, clock,
                            uuid + 1,
                            base @@ [pc |-> "upload_load", caption |-> caption,
                                     unique_name |-> unique_name, n |-> uuid + 1,
                                     fx |-> {"file.save"},
                                     pre |-> Observe(DATA_FILE, cloud, "ok")],
                            Nothing, {}))

\* Lines 153-162: the index is read and the record appended to the copy.
upload_load(p) ==
  /\ At(p, "upload_load")
  /\ LET r == req[p]
         loaded == _load_items(DATA_FILE, LocalEnv)
     IN IF loaded.kind # "list"
        THEN Apply(p, FALSE, Answer(Summary(r) @@ [res |-> ServerError]))
        ELSE \E t \in clock..MaxClock :
               LET record == [id |-> hex_id(r.n), source |-> "local",
                              image |-> r.unique_name, caption |-> r.caption,
                              created_at |-> isoformat(t)]
               IN Apply(p, FALSE,
                    Out(DATA_FILE, UPLOAD_DIR, cloud, t, uuid,
                        [r EXCEPT !.pc = "upload_save",
                                  !.fx = @ \cup {"index.read"},
                                  !.form = Kept(@)]
                          @@ [read |-> loaded.items, record |-> record,
                              items |-> Append(loaded.items, record)],
                        Nothing, {}))

\* Lines 163-165: the copy is written back and success is answered.
upload_save(p) ==
  /\ At(p, "upload_save")
  /\ LET r == req[p]
         df == _save_items(DATA_FILE, r.items)
     IN Apply(p, FALSE,
          Out(df, UPLOAD_DIR, cloud, clock, uuid, Idle,
              [Summary(r) EXCEPT !.fx = @ \cup {"index.write"}]
                @@ [res |-> Redirect("uploaded", "success"),
                    post |-> Observe(df, cloud, "ok")],
              {r.unique_name}))

\* ----------------------------------------------------------------- delete
\* Lines 173-201: POST /delete up to the payload removal (source other than
\* cloud) or through the remote destroy (source cloud). io: how unlink or
\* uploader.destroy ends.
delete(p) ==
  /\ Free(p)
  /\ \E form \in DeleteForms :
       LET source == strip(form.source)
           public_id == strip(form.public_id)
           filename == strip(form.filename)
           base == [op |-> "delete", form |-> form, clean |-> Quiet(p)]
           path == file_path(filename)
           exists == /\ filename # <<>>
                     /\ IF path.dir = "data" THEN DATA_FILE.kind # "absent"
                        ELSE path.name \in UPLOAD_DIR
           unlinked == [kind |-> "absent", items |-> <<>>]
           left == {a \in cloud : <<a.public_id>> # public_id}
       IN IF ~token_ok(form)
          THEN Apply(p, TRUE, Answer(
                 base @@ [res |-> Redirect("wrong_token", "error"), fx |-> {}]))
          ELSE IF source = <<"cloud">>
          THEN IF public_id = <<>>
               THEN Apply(p, TRUE, Answer(
                      base @@ [res |-> Redirect("missing_file_info", "error"),
                               fx |-> {}]))
               ELSE \E io \in Outcomes, o2 \in ObsOutcomes :
                      Apply(p, TRUE,
                        IF io = "raise"
                        THEN Answer(base @@ [res |-> Redirect("delete_failed", "error"),
                                             fx |-> {"cloud.destroy"}])
                        ELSE Out(DATA_FILE, UPLOAD_DIR, left, clock, uuid, Idle,
                                 base @@ [res |-> Redirect("deleted", "success"),
                                          fx |-> {"cloud.destroy"},
                                          public_id |-> public_id,
                                          found |-> left # cloud,
                                          post |-> Observe(DATA_FILE, left, o2)],
                                 {}))
          ELSE IF filename = <<>>
          THEN Apply(p, TRUE, Answer(
                 base @@ [res |-> Redirect("missing_file_info", "error"),
                          fx |-> {}]))
          ELSE \E io \in IF exists THEN Outcomes ELSE {"ok"} :
                 Apply(p, TRUE,
                   IF io = "raise"
                   THEN Answer(base @@ [res |-> Redirect("delete_failed", "error"),
                                        fx |-> {"dir.exists", "file.unlink"}])
                   ELSE Out(IF exists /\ path.dir = "data" THEN unlinked
                            ELSE DATA_FILE,
                            IF path.dir = "uploads"
                            THEN UPLOAD_DIR \ {path.name} ELSE UPLOAD_DIR,
                            cloud, clock, uuid,
                            base @@ [pc |-> "delete_load", filename |-> filename,
                                     fx |-> IF exists
                                            THEN {"dir.exists", "file.unlink"}
                                            ELSE {"dir.exists"}],
                            Nothing, {}))

\* Lines 203-204: the index is read and the entries of the file dropped from
\* the copy.
delete_load(p) ==
  /\ At(p, "delete_load")
  /\ \E env \in Envs :
       LET r == req[p]
           loaded == _load_items(DATA_FILE, env)
           Keep(i) == ImageOf(i) # r.filename
       IN Apply(p, FALSE,
            IF loaded.kind # "list"
            THEN Answer(Summary(r) @@ [res |-> ServerError])
            ELSE Out(DATA_FILE, UPLOAD_DIR, cloud, clock, uuid,
                     [r EXCEPT !.pc = "delete_save",
                               !.form = Kept(@),
                               !.fx = @ \cup (IF USE_CLOUDINARY
                                              THEN RemoteCalls(loaded)
                                              ELSE {"index.read"})]
                       @@ [read |-> loaded.items,
                           items |-> SelectSeq(loaded.items, Keep)],
                     Nothing, {}))

\* A delete that answers success without writing its copy back.
delete_answering_only(p) ==
  /\ At(p, "delete_save")
  /\ Apply(p, FALSE,
       Out(DATA_FILE, UPLOAD_DIR, cloud, clock, uuid, Idle,
           Summary(req[p]) @@ [res |-> Redirect("deleted", "success"),
                               post |-> Observe(DATA_FILE, cloud, "ok")],
           {}))

\* Lines 205-206: the copy is written back and success is answered.
delete_save(p) ==
  /\ At(p, "delete_save")
  /\ \E o2 \in ObsOutcomes :
       LET r == req[p]
           df == _save_items(DATA_FILE, r.items)
       IN Apply(p, FALSE,
            Out(df, UPLOAD_DIR, cloud, clock, uuid, Idle,
                [Summary(r) EXCEPT !.fx = IF USE_CLOUDINARY THEN @
                                          ELSE @ \cup {"index.write"}]
                  @@ [res |-> Redirect("deleted", "success"),
                      post |-> Observe(df, cloud, o2)],
                {}))

\* ------------------------------------------------------------ the process
Secrets == {<<>>, <<"s">>}

\* Assets another application keeps in the same remote account: one under
\* the folder without the tag, one with the tag outside the folder.
Untagged ==
  [public_id |-> CLOUD_FOLDER \o "/raw", asset_id |-> "", url |-> "",
   tags |-> {}, folder |-> TRUE, context |-> <<>>, created_at |-> <<9>>]
Elsewhere ==
  [public_id |-> "misc/pic", asset_id |-> "a0", url |-> "",
   tags |-> {TAG}, folder |-> FALSE, context |-> <<"hi">>, created_at |-> <<>>]

Init ==
  /\ USE_CLOUDINARY \in BOOLEAN
  /\ UPLOAD_TOKEN \in Secrets
  /\ IF USE_CLOUDINARY
     THEN /\ DATA_FILE = [kind |-> "absent", items |-> <<>>]
          /\ UPLOAD_DIR = {"old.png"}
          /\ cloud \in {{}, {Untagged, Elsewhere}}
     ELSE /\ DATA_FILE \in {[kind |-> k, items |-> <<>>] :
                              k \in {"absent", "array", "badjson", "nonarray",
                                     "badutf8"}}
          /\ UPLOAD_DIR = {}
          /\ cloud = {}
  /\ clock = 0
  /\ uuid = 0
  /\ nreq = 0
  /\ req = [p \in Workers |-> Idle]
  /\ last = Nothing
  /\ acked = {}
  /\ gone = {}

\* The pending response leaves the server.
respond ==
  /\ last.op # "none"
  /\ last' = Nothing
  /\ UNCHANGED <<USE_CLOUDINARY, UPLOAD_TOKEN, DATA_FILE, UPLOAD_DIR, cloud,
                 clock, uuid, nreq, req, acked, gone>>

Next ==
  \/ \E p \in Workers :
       \/ index(p)
       \/ upload(p)
       \/ upload_load(p)
       \/ upload_save(p)
       \/ delete(p)
       \/ delete_load(p)
       \/ delete_save(p)
  \/ respond

Spec == Init /\ [][Next]_vars

\* Requests handled one at a time by one worker, on the local backend with
\* an index that is absent or an empty array.
SeqInit ==
  /\ Init
  /\ ~USE_CLOUDINARY
  /\ DATA_FILE.kind \in {"absent", "array"}

SeqNext ==
  \/ index(1)
  \/ upload(1)
  \/ upload_load(1)
  \/ upload_save(1)
  \/ delete(1)
  \/ delete_load(1)
  \/ delete_save(1)
  \/ respond

SeqSpec == SeqInit /\ [][SeqNext]_vars

\* ================================================================== claims
Elems(items) == {items[k] : k \in 1..Len(items)}

Succeeded(s) == s.res.status = 302 /\ s.res.level = "success"
Rejected(s) == s.res.status = 302 /\ s.res.level = "error"

\* An upload that was answered with success while no other request ran.
CleanUpload == last.op = "upload" /\ Succeeded(last) /\ last.clean

\* list() after the create holds the records of list() before it and one
\* more, which carries the submitted caption, trimmed.
OneMore(s) ==
  LET before == s.pre.items
      after == s.post.items
      added == Elems(after) \ Elems(before)
  IN /\ s.pre.kind = "list"
     /\ s.post.kind = "list"
     /\ Len(after) = Len(before) + 1
     /\ Elems(before) \subseteq Elems(after)
     /\ Cardinality(added) = 1
     /\ \A r \in added : r.caption = strip(s.form.caption)

SortedDesc(items) ==
  \A k \in 1..(Len(items) - 1) :
    ~StrLess(items[k].created_at, items[k + 1].created_at)

\* A listing: the items of a page that index() rendered from a list.
Listing == last.op = "index" /\ last.res.status = 200 /\ last.res.kind = "list"

\* C2 as stated: on either backend every listing is sorted by created_at
\* descending.
C2_EveryListingSorted == Listing => SortedDesc(last.res.items)

\* C2, amended to the remote backend: every listing it returns is sorted by
\* created_at descending.
C2_RemoteListingSorted ==
  (USE_CLOUDINARY /\ Listing) => SortedDesc(last.res.items)

\* A remote listing of two uploads made at different seconds, obtained from
\* the prefix listing.
C2_Witness ==
  /\ USE_CLOUDINARY
  /\ Listing
  /\ last.calls = <<"search", "resources">>
  /\ Len(last.res.items) >= 2
  /\ last.res.items[1].created_at # last.res.items[2].created_at

\* A local delete by file name that reached the store and whose payload
\* removal met no filesystem error.
LocalDelete ==
  /\ ~USE_CLOUDINARY
  /\ last.op = "delete"
  /\ "dir.exists" \in last.fx
  /\ last.res.msg # "delete_failed"

\* C3: every local delete(locator), a repeated one included, reports success,
\* and no record with that locator is in list() after it.
C3_LocalDeleteIdempotent ==
  LocalDelete =>
    /\ Succeeded(last)
    /\ last.post.kind = "list"
    /\ \A r \in Elems(last.post.items) : ImageOf(r) # last.filename

LocalOps == {"file.save", "dir.exists", "file.unlink", "index.read", "index.write"}
RemoteOps == {"cloud.search", "cloud.resources", "cloud.upload", "cloud.destroy"}

\* The store operations of the requests in hand and of the one answered.
OpsSeen ==
  UNION ({req[p].fx : p \in {q \in Workers : Busy(q)}}
         \cup {IF last.op = "none" THEN {} ELSE last.fx})

\* C4: a process started without the remote setting makes no remote call, and
\* one started with it touches neither the payload files nor the local index,
\* whatever source a delete request names.
C4_OneBackendPerProcess ==
  /\ ~USE_CLOUDINARY => OpsSeen \cap RemoteOps = {}
  /\ USE_CLOUDINARY => OpsSeen \cap LocalOps = {}

\* C5: a local create that is answered with success leaves the index as its
\* private copy, what it read followed by its own record, so that whatever
\* another request wrote in between is lost.
C5_WholeFileReplace ==
  (~USE_CLOUDINARY /\ last.op = "upload" /\ Succeeded(last)) =>
    DATA_FILE = [kind |-> "array", items |-> Append(last.read, last.record)]

\* Two creates, both answered with success, and an index that holds one
\* record.
C5_LostUpdate ==
  /\ ~USE_CLOUDINARY
  /\ nreq = 2
  /\ last.op = "upload"
  /\ Succeeded(last)
  /\ Cardinality(acked) = 2
  /\ DATA_FILE.kind = "array"
  /\ Len(DATA_FILE.items) = 1

RemoteList == USE_CLOUDINARY /\ last.op = "index"

\* C6: a remote list() calls the tag search first and once, and the prefix
\* listing once exactly when the search raised or found nothing: at most two
\* remote calls.
C6_FallbackOnce ==
  RemoteList =>
    last.calls = IF last.env.search = "raise" \/ last.hits = 0
                 THEN <<"search", "resources">>
                 ELSE <<"search">>

\* A remote list() whose search succeeded and found nothing.
C6_Witness ==
  /\ RemoteList
  /\ last.env.search = "ok"
  /\ last.hits = 0
  /\ last.calls = <<"search", "resources">>

\* C7: a remote list() never raises, whatever its two remote calls do, and
\* returns the empty sequence when both fail.
C7_RemoteListNeverRaises ==
  RemoteList =>
    /\ last.res.status = 200
    /\ last.res.kind = "list"
    /\ (last.env.search = "raise" /\ last.env.listing = "raise")
         => last.res.items = <<>>

\* A remote list() over tagged assets with both calls failing.
C7_Witness ==
  /\ RemoteList
  /\ last.hits > 0
  /\ last.env.search = "raise"
  /\ last.env.listing = "raise"
  /\ last.res.items = <<>>

\* C8: a local list() over an index file with invalid content returns the
\* empty sequence and does not raise, whatever the content.
C8_InvalidIndexListsEmpty ==
  (/\ ~USE_CLOUDINARY
   /\ last.op = "index"
   /\ last.seen \in {"badjson", "nonarray", "badutf8"}) =>
    /\ last.res.status = 200
    /\ last.res.kind = "list"
    /\ last.res.items = <<>>

\* The forms in sight that still carry what the client sent.
FormsSeen(field) ==
  {req[p].form : p \in {q \in Workers : Busy(q) /\ field \in DOMAIN req[q].form}}
  \cup (IF last.op \in {"upload", "delete"} /\ field \in DOMAIN last.form
        THEN {last.form} ELSE {})

\* The request of a form is answered at once, with an error redirect and no
\* store operation made.
Refused(form) ==
  /\ last.op \in {"upload", "delete"}
  /\ last.form = form
  /\ Rejected(last)
  /\ last.fx = {}

BadFile(file) ==
  \/ ~file.present
  \/ file.stem \o file.suffix = ""
  \/ lower(file.suffix) \notin {".jpg", ".jpeg", ".png", ".gif", ".webp"}

\* C10: an upload that fails validation is refused with an error message and
\* makes no store operation.
C10_InvalidUploadRefused ==
  \A form \in FormsSeen("image") : BadFile(form.image) => Refused(form)

\* An .exe upload with an accepted token, refused by the allow-list.
C10_Witness ==
  /\ last.op = "upload"
  /\ "image" \in DOMAIN last.form
  /\ last.form.image.suffix = ".exe"
  /\ last.res.msg = "only_images"
  /\ Refused(last.form)

\* A delete that went through the remote destroy on the remote backend.
RemoteDelete ==
  /\ USE_CLOUDINARY
  /\ last.op = "delete"
  /\ "cloud.destroy" \in last.fx

\* C11: a remote delete reports success only when the destroy call removed
\* an asset; a locator the remote side does not know is reported as failure.
C11_NotFoundReportsFailure ==
  (RemoteDelete /\ Succeeded(last)) => last.found

\* C12: from an empty store, an undisturbed successful upload followed by an
\* undisturbed successful delete of the (source, locator) that list() shows
\* for it leaves list() empty and, on the local backend, no payload file.
RoundTrip ==
  /\ last.op = "delete"
  /\ Succeeded(last)
  /\ last.clean
  /\ nreq = 2
  /\ Elsewhere \notin cloud
  /\ IF USE_CLOUDINARY
     THEN "public_id" \in DOMAIN last /\ acked = Elems(last.public_id)
     ELSE "filename" \in DOMAIN last /\ acked = Elems(last.filename)

C12_RoundTripEmpties ==
  RoundTrip =>
    /\ last.post.kind = "list"
    /\ last.post.items = <<>>
    /\ ~USE_CLOUDINARY => (UPLOAD_DIR = {} /\ DATA_FILE.items = <<>>)
    /\ USE_CLOUDINARY => \A a \in cloud : ~IsTagged(a)

\* A local round trip: the upload stored a payload and a record, the delete
\* named the payload.
C12_Witness ==
  /\ ~USE_CLOUDINARY
  /\ RoundTrip
  /\ "file.unlink" \in last.fx
  /\ last.read # <<>>

\* A remote round trip.
C12_RemoteWitness ==
  /\ USE_CLOUDINARY
  /\ RoundTrip
  /\ last.found

\* A local upload whose payload write raised: the request ended before a
\* payload name was in use.
PayloadWriteFailed ==
  /\ ~USE_CLOUDINARY
  /\ last.op = "upload"
  /\ last.fx = {"file.save"}
  /\ "unique_name" \notin DOMAIN last

PayloadBeforeIndex ==
  /\ \A p \in Workers :
       (req[p].pc = "idle" /\ req'[p].pc = "upload_load") =>
         /\ DATA_FILE' = DATA_FILE
         /\ req'[p].unique_name \notin UPLOAD_DIR
         /\ req'[p].unique_name \in UPLOAD_DIR'
  /\ \A p \in Workers :
       (req[p].pc = "upload_save" /\ req'[p].pc = "idle") =>
         /\ "file.save" \in req[p].fx
         /\ DATA_FILE'.kind = "array"
         /\ DATA_FILE'.items # <<>>
         /\ DATA_FILE'.items[Len(DATA_FILE'.items)].image = req[p].unique_name
  /\ \A p \in Workers :
       (req[p].pc = "upload_load" /\ req'[p].pc # "upload_load") =>
         DATA_FILE' = DATA_FILE
  /\ (last.op = "none" /\ PayloadWriteFailed') =>
       /\ last'.res.status = 500
       /\ DATA_FILE' = DATA_FILE

\* C13: on the local backend an upload writes the payload file first and
\* leaves the index alone in that step, appends its record only in a later
\* step of a request whose payload was stored, and when the payload write
\* fails the request fails with the index unchanged.
C13_PayloadBeforeIndex == [][~USE_CLOUDINARY => PayloadBeforeIndex]_vars

\* A payload write that failed while the index held a record.
C13_Witness ==
  /\ PayloadWriteFailed
  /\ DATA_FILE.kind = "array"
  /\ Len(DATA_FILE.items) = 1

\* A local delete by file name that got as far as the payload file.
LocalDeleteAnswered ==
  /\ ~USE_CLOUDINARY
  /\ last.op = "delete"
  /\ "dir.exists" \in last.fx

\* The half of C14 about a failing removal: the delete whose unlink raised
\* is answered with an error redirect and has neither read nor written the
\* index.
UnlinkErrorKeepsIndex ==
  (LocalDeleteAnswered /\ last.res.msg = "delete_failed") =>
    /\ Rejected(last)
    /\ last.fx \cap {"index.read", "index.write"} = {}

\* C14: a local delete whose payload removal raises reports an error and
\* leaves the index alone; a local delete whose payload file is absent is no
\* error, and no index entry of that locator is listed after it.
C14_AbsentPayloadNoError ==
  /\ UnlinkErrorKeepsIndex
  /\ (LocalDeleteAnswered /\ "file.unlink" \notin last.fx) =>
       /\ Succeeded(last)
       /\ last.post.kind = "list"
       /\ \A r \in Elems(last.post.items) : ImageOf(r) # last.filename

\* The write-back of worker p's upload puts its record behind the entries
\* of the index as it is.
AppendsOne(p) ==
  DATA_FILE' = [kind |-> "array",
                items |-> Append(DATA_FILE.items, req[p].record)]

\* The write-back of worker p's delete takes the entries of its file name,
\* and no other, out of the index as it is.
RemovesLocator(p) ==
  LET Other(i) == ImageOf(i) # req[p].filename
  IN DATA_FILE' = [kind |-> "array", items |-> SelectSeq(DATA_FILE.items, Other)]

\* The frame of one step of the local backend.
LocalFrame ==
  /\ \A p \in Workers :
       /\ (req[p].pc = "upload_save" /\ req'[p].pc = "idle") => AppendsOne(p)
       /\ (req[p].pc = "delete_save" /\ req'[p].pc = "idle") => RemovesLocator(p)
  /\ DATA_FILE'.items # DATA_FILE.items =>
       \E p \in Workers : /\ req[p].pc \in {"upload_save", "delete_save"}
                          /\ req'[p].pc = "idle"
  /\ (last.op = "none" /\ last'.op = "index" /\ DATA_FILE.kind = "array") =>
       /\ last'.res.kind = "list"
       /\ last'.res.items = DATA_FILE.items

\* C15: on the local backend list() returns the index in its order, every
\* create appends one record at the end of the index, every delete removes
\* exactly the entries of its locator, and nothing else changes the records
\* of the index.
C15_LocalFrame == [][~USE_CLOUDINARY => LocalFrame]_vars

\* What list() returned on the remote backend: the items index() rendered
\* and the listings taken around an upload or a delete.
RemoteSequences ==
  IF ~USE_CLOUDINARY \/ last.op = "none" THEN {}
  ELSE (IF last.op = "index" THEN {last.res.items} ELSE {})
       \cup (IF "pre" \in DOMAIN last THEN {last.pre.items} ELSE {})
       \cup (IF "post" \in DOMAIN last THEN {last.post.items} ELSE {})

\* An item without created_at has only such items behind it.
MissingLast(items) ==
  \A j \in 1..Len(items), k \in 1..Len(items) :
    (j < k /\ items[j].created_at = <<>>) => items[k].created_at = <<>>

\* C16: whichever remote call supplied the resources and in whatever order,
\* what list() returns on the remote backend is sorted by created_at
\* descending as strings, the items without created_at last.
C16_RemoteSortedMissingLast ==
  \A items \in RemoteSequences : SortedDesc(items) /\ MissingLast(items)

\* A listing from the tag search that holds an upload and, behind it, an
\* asset without created_at.
C16_Witness ==
  /\ RemoteList
  /\ last.calls = <<"search">>
  /\ Len(last.res.items) >= 2
  /\ last.res.items[1].created_at # <<>>
  /\ last.res.items[Len(last.res.items)].created_at = <<>>

\* A remote list() that was satisfied by the prefix listing.
FallbackList == RemoteList /\ last.calls = <<"search", "resources">>

\* C17: every record of a remote list() that came from the prefix listing
\* is the record of an asset of the account that carries the collection
\* tag.
C17_FallbackOnlyTagged ==
  FallbackList =>
    \A item \in Elems(last.res.items) :
      \E a \in cloud : a.public_id = item.public_id /\ TAG \in a.tags

\* A prefix listing that found an untagged asset under the folder next to a
\* tagged one, and returned the tagged one only.
C17_Witness ==
  /\ FallbackList
  /\ Untagged \in cloud
  /\ Len(last.res.items) = 1

\* The index and the uploads directory agree: every record names a stored
\* payload, every payload is named by exactly one record, and no two records
\* share an id.
Agree ==
  LET items == DATA_FILE.items
      Refs(n) == {k \in 1..Len(items) : items[k].image = n}
  IN /\ \A k \in 1..Len(items) : items[k].image \in UPLOAD_DIR
     /\ \A n \in UPLOAD_DIR : Cardinality(Refs(n)) = 1
     /\ \A j \in 1..Len(items), k \in 1..Len(items) :
          items[j].id = items[k].id => j = k

\* C18: on the local backend, from an empty uploads directory and an empty
\* or absent index, between requests that run one at a time the index and
\* the uploads directory agree.
C18_IndexAgreesWithUploads ==
  (\A p \in Workers : ~Busy(p)) => Agree

\* The file name n is the image of a record that list() returns.
Listed(n) ==
  \E r \in Elems(Observe(DATA_FILE, cloud, "ok").items) : ImageOf(r) = <<n>>

\* C19 as stated: on the local backend, once the delete of a record was
\* answered with success, list() never returns a record of that locator
\* again, whatever requests overlap.
C19_DeletedStaysDeleted ==
  ~USE_CLOUDINARY => \A n \in gone : ~Listed(n)

\* The write-back of worker p that stores a copy of the index holding n.
StaleWriteBack(p, n) ==
  /\ req[p].pc \in {"upload_save", "delete_save"}
  /\ req'[p].pc = "idle"
  /\ \E r \in Elems(req[p].items) : ImageOf(r) = <<n>>

\* C19, amended: on the local backend the record is not listed when its
\* delete is answered with success, and afterwards it is listed again only
\* through the write-back of a request whose copy of the index still holds
\* it.
C19_DeletedUnlessStaleWrite ==
  [][~USE_CLOUDINARY =>
       /\ \A n \in gone' \ gone : ~Listed(n)'
       /\ \A n \in gone :
            (~Listed(n) /\ Listed(n)') => \E p \in Workers : StaleWriteBack(p, n)
    ]_vars

\* The delete of a record was answered with success while an upload that
\* had read the record into its copy was waiting to write.
C19_Witness ==
  /\ ~USE_CLOUDINARY
  /\ last.op = "delete"
  /\ Deleted(last) \cap gone # {}
  /\ \E p \in Workers :
       /\ req[p].pc = "upload_save"
       /\ \E r \in Elems(req[p].read) : <<r.image>> = last.filename

====
